---- MODULE Spec2Model ----
(***************************************************************************)
(* target-xero: conversion of staged journal rows into Xero manual         *)
(* journals, and the sequential posting of journals and bank transactions  *)
(* with compensation (void / delete) on failure.                           *)
(* Source: src/target_xero/__init__.py                                     *)
(***************************************************************************)
EXTENDS Integers, Sequences, FiniteSets, TLC

VARIABLES
    pc,               \* position of the run
    files,            \* which input files exist: [tx : BOOLEAN, je : BOOLEAN]
    config,           \* the optional keys of the config file: the column named
                      \* for each tracking dimension, None where the key is absent
    columns,          \* list(df.columns) of JournalEntries.csv
    transactions,     \* parsed Transactions.json
    rows,             \* raw rows of JournalEntries.csv
    acc_list,         \* client.filter("Accounts")
    journals,         \* result of load_journal_entries
    error,            \* the exception that left the run, "none" while there is none
    tx_i,             \* upload_transactions: index of the transaction at hand
    pushed_ids,       \* upload_transactions: pushed_ids
    log_file,         \* what was last written to config["log_file"]
    je_i,             \* post_journal_entries: index of the journal at hand
    posted_journals,  \* post_journal_entries: posted_journals
    void_i,           \* index in the compensation loop (void or delete)
    calls             \* history: the client.push calls made so far, in order

vars == <<pc, files, config, columns, transactions, rows, acc_list, journals, error,
          tx_i, pushed_ids, log_file, je_i, posted_journals, void_i, calls>>

-----------------------------------------------------------------------------
(* Bounds of the model *)

MaxRows == 3      \* rows in JournalEntries.csv
MaxTx == 2        \* transactions in Transactions.json
MaxEntries == 3   \* journals handed to post_journal_entries

-----------------------------------------------------------------------------
(* Values of the Python / pandas runtime *)

\* float('nan'): what pandas yields for an empty cell.  It is truthy and is
\* never equal to a key of a dict of strings.
NaN == "<nan>"
\* Python None
None == "<None>"

Range(s) == {s[i] : i \in DOMAIN s}

\* config["log_file"] before anything is written to it; `of` is the index of
\* the transaction whose response body the file holds
NoLog == [type |-> "none", status_code |-> 0, of |-> 0]

Abs(n) == IF n < 0 THEN -n ELSE n

\* str.lower(), on a string held as a tuple of one-letter strings
LowerChar(c) ==
    CASE c = "C" -> "c" [] c = "R" -> "r" [] c = "E" -> "e" [] c = "D" -> "d"
      [] c = "I" -> "i" [] c = "T" -> "t" [] c = "B" -> "b" [] OTHER -> c
Lower(s) == [i \in DOMAIN s |-> LowerChar(s[i])]

credit == <<"c", "r", "e", "d", "i", "t">>
debit == <<"d", "e", "b", "i", "t">>

-----------------------------------------------------------------------------
(* Reference data fetched from the remote service *)

\* client.filter("Accounts"), as the upload runs get it
FetchedAccounts ==
    << [Name |-> "Cash", Code |-> "100", Type |-> "BANK", AccountID |-> "a1"],
       [Name |-> "Rev", Code |-> "200", Type |-> "REVENUE", AccountID |-> "a2"] >>

\* client.filter("Accounts"): the lists the conversion runs draw from; in the
\* second, one account has no Code
AccLists ==
    { FetchedAccounts,
      << [Name |-> "Cash", Code |-> "100", Type |-> "BANK", AccountID |-> "a1"],
         [Name |-> "Rev", Code |-> None, Type |-> "REVENUE", AccountID |-> "a2"] >> }

\* client.filter("Tracking_Categories")
cat_list ==
    << [Name |-> "Dept", Options |-> << [Name |-> "Sales"], [Name |-> "Ops"] >>],
       [Name |-> "Region", Options |-> << [Name |-> "East"] >>],
       [Name |-> "Customer", Options |-> << [Name |-> "C1"], [Name |-> "Acme"] >>] >>

\* client.filter("Contacts")
contact_list == << [Name |-> "Acme", ContactID |-> "c1"] >>

\* accounts, as upload_journals builds it: a dict, here a function over its keys.
\* Later assignments overwrite earlier ones under the same key; within one
\* account, accounts[name] is assigned after accounts[code].
RECURSIVE AccountIndexFrom(_, _)
AccountIndexFrom(idx, lst) ==
    IF lst = <<>> THEN idx
    ELSE LET account == Head(lst) IN
         IF account.Code = None
         THEN AccountIndexFrom(idx, Tail(lst))
         ELSE LET acc_ref == [Name |-> account.Name, Code |-> account.Code]
                  keys == DOMAIN idx \cup {account.Code, account.Name}
                  next == [k \in keys |->
                             IF k = account.Name THEN acc_ref
                             ELSE IF k = account.Code THEN acc_ref
                             ELSE idx[k]]
              IN AccountIndexFrom(next, Tail(lst))

EmptyDict == [k \in {} |-> None]

AccountIndex(lst) == AccountIndexFrom(EmptyDict, lst)

\* categories, as upload_journals builds it
RECURSIVE OptionIndexFrom(_, _, _)
OptionIndexFrom(idx, name, options) ==
    IF options = <<>> THEN idx
    ELSE LET option == Head(options).Name
             next == [k \in DOMAIN idx \cup {option} |->
                        IF k = option THEN [Name |-> name, Option |-> option]
                        ELSE idx[k]]
         IN OptionIndexFrom(next, name, Tail(options))

RECURSIVE CategoryIndexFrom(_, _)
CategoryIndexFrom(idx, lst) ==
    IF lst = <<>> THEN idx
    ELSE CategoryIndexFrom(OptionIndexFrom(idx, Head(lst).Name, Head(lst).Options),
                           Tail(lst))

CategoryIndex(lst) == CategoryIndexFrom(EmptyDict, lst)

\* dict.get(key, default)
DictGet(d, key, default) == IF key \in DOMAIN d THEN d[key] ELSE default

-----------------------------------------------------------------------------
(* JournalEntries.csv as pandas reads it *)

\* Cell texts that pandas parses as integers
NumericText == {"100", "200", "999"}

\* dtype pd.read_csv gives the "Account Number" column: int64 when every cell is
\* an integer, float64 when the others are empty, object otherwise
AccountNumberDtype(raw) ==
    IF \A i \in DOMAIN raw : raw[i].AccountNumber \in NumericText THEN "int64"
    ELSE IF \A i \in DOMAIN raw : raw[i].AccountNumber \in NumericText \cup {""}
         THEN "float64"
         ELSE "object"

\* str(row['Account Number'])
PyStr(dtype, cell) ==
    CASE dtype = "int64" -> cell
      [] dtype = "float64" -> IF cell = "" THEN "nan" ELSE cell \o ".0"
      [] OTHER -> IF cell = "" THEN "nan" ELSE cell

\* a cell of a text column: an empty cell is read as NaN
TextCell(cell) == IF cell = "" THEN NaN ELSE cell

\* pd.to_datetime(...).dt.strftime('%Y-%m-%d')
FormatDate(text) ==
    CASE text = "01/05/2024" -> "2024-01-05"
      [] text = "2024-01-05" -> "2024-01-05"
      [] text = "2024-02-01 10:30" -> "2024-02-01"
      [] OTHER -> text

\* REQUIRED_COLS, lines 59-60
REQUIRED_COLS ==
    {"Transaction Date", "Journal Entry Id", "Class", "Account Number",
     "Account Name", "Posting Type", "Description"}

\* mutant of HasRequiredCols: any(...) in place of all(...)
HasSomeRequiredCol(cols) == \E col \in REQUIRED_COLS : col \in cols

\* line 62: all(col in cols for col in REQUIRED_COLS)
HasRequiredCols(cols) == \A col \in REQUIRED_COLS : col \in cols

\* the columns a file can have besides the required ones: the amount and the
\* columns the config can name for the optional tracking dimensions
OptionalCols == {"Department", "Location", "Customer Id", "Customer Name"}
PlainCols == REQUIRED_COLS \cup {"Amount"}

\* df, after the dates are formatted: one record per row, in file order
ReadCsv(raw) ==
    [i \in DOMAIN raw |->
        [JournalEntryId |-> raw[i].JournalEntryId,
         TransactionDate |-> FormatDate(raw[i].TransactionDate),
         PostingType |-> raw[i].PostingType,
         Amount |-> raw[i].Amount,
         AccountNumber |-> PyStr(AccountNumberDtype(raw), raw[i].AccountNumber),
         AccountName |-> TextCell(raw[i].AccountName),
         Class |-> TextCell(raw[i].Class),
         Description |-> raw[i].Description,
         Department |-> TextCell(raw[i].Department),
         Location |-> TextCell(raw[i].Location),
         CustomerId |-> TextCell(raw[i].CustomerId),
         CustomerName |-> TextCell(raw[i].CustomerName)]]

\* row[col], for the columns the config can name
RowValue(row, col) ==
    CASE col = "Department" -> row.Department
      [] col = "Location" -> row.Location
      [] col = "Customer Id" -> row.CustomerId
      [] col = "Customer Name" -> row.CustomerName

-----------------------------------------------------------------------------
(* load_journal_entries *)

\* mutant of LineAmount: the posting type is compared without .lower()
LineAmountCaseSensitive(posting_type, amount) ==
    IF posting_type = credit THEN -1 * Abs(amount) ELSE Abs(amount)

\* line_amt of build_lines
LineAmount(posting_type, amount) ==
    IF Lower(posting_type) = credit THEN -1 * Abs(amount) ELSE Abs(amount)

\* `not acct_num and not acct_name`: an empty string is falsy, NaN is truthy
AccountRefMissing(acct_num, acct_name) == acct_num = "" /\ acct_name = ""

\* accounts.get(acct_num, accounts.get(acct_name, {})).get("Code")
ResolveAccountCode(accounts, acct_num, acct_name) ==
    LET hit == DictGet(accounts, acct_num, DictGet(accounts, acct_name, EmptyDict))
    IN DictGet(hit, "Code", None)

\* lines 117-124: the tracking reference of the class, <<>> when
\* categories.get(class_name) is None
ClassTracking(categories, class_name) ==
    IF class_name \in DOMAIN categories THEN <<categories[class_name]>> ELSE <<>>

\* one optional dimension, e.g. lines 127-132: `key in config and config[key]
\* in row.index`, then categories.get(row[config[key]])
DimensionTracking(categories, row, col) ==
    IF col # None /\ col \in columns /\ RowValue(row, col) \in DOMAIN categories
    THEN <<categories[RowValue(row, col)]>>
    ELSE <<>>

\* mutant of Tracking: the department is added before the class
TrackingDepartmentFirst(row, categories) ==
    DimensionTracking(categories, row, config.department)
    \o ClassTracking(categories, row.Class)
    \o DimensionTracking(categories, row, config.location)
    \o DimensionTracking(categories, row, config.customer_id)
    \o DimensionTracking(categories, row, config.customer_name)

\* line_item["Tracking"] after lines 116-156, add_tracking appending in the
\* order of the code; <<>> stands for a line without the key
Tracking(row, categories) ==
    ClassTracking(categories, row.Class)
    \o DimensionTracking(categories, row, config.department)
    \o DimensionTracking(categories, row, config.location)
    \o DimensionTracking(categories, row, config.customer_id)
    \o DimensionTracking(categories, row, config.customer_name)

\* mutant of BuildLine: a line whose account is not found is kept, without a code
BuildLineKeepsUnresolved(row, accounts, categories) ==
    LET acct_num == row.AccountNumber
        acct_name == row.AccountName
        acct_code == ResolveAccountCode(accounts, acct_num, acct_name)
    IN IF AccountRefMissing(acct_num, acct_name)
       THEN [ok |-> FALSE, error |-> "AccountMissing"]
       ELSE [ok |-> TRUE,
             line |-> [Description |-> row.Description,
                       LineAmount |-> LineAmount(row.PostingType, row.Amount),
                       AccountCode |-> acct_code,
                       Tracking |-> Tracking(row, categories)]]

\* one iteration of the loop over x.iterrows(): the line built, or the exception
BuildLine(row, accounts, categories) ==
    LET acct_num == row.AccountNumber
        acct_name == row.AccountName
        acct_code == ResolveAccountCode(accounts, acct_num, acct_name)
    IN IF AccountRefMissing(acct_num, acct_name)
       THEN [ok |-> FALSE, error |-> "AccountMissing"]
       ELSE IF acct_code = None
       THEN [ok |-> FALSE, error |-> "AccountNotFound"]
       ELSE [ok |-> TRUE,
             line |-> [Description |-> row.Description,
                       LineAmount |-> LineAmount(row.PostingType, row.Amount),
                       AccountCode |-> acct_code,
                       Tracking |-> Tracking(row, categories)]]

\* the loop of build_lines over the rows of one group
RECURSIVE BuildLineItems(_, _, _, _)
BuildLineItems(x, accounts, categories, line_items) ==
    IF x = <<>> THEN [ok |-> TRUE, lines |-> line_items]
    ELSE LET r == BuildLine(Head(x), accounts, categories) IN
         IF ~r.ok THEN r
         ELSE BuildLineItems(Tail(x), accounts, categories, Append(line_items, r.line))

\* build_lines(x): the entry appended to journal_entries, or the exception
build_lines(x, accounts, categories) ==
    LET r == BuildLineItems(x, accounts, categories, <<>>) IN
    IF ~r.ok THEN r
    ELSE [ok |-> TRUE,
          entry |-> [Date |-> x[Len(x)].TransactionDate,
                     Status |-> "POSTED",
                     Narration |-> x[1].JournalEntryId,
                     JournalLines |-> r.lines]]

\* df.groupby("Journal Entry Id"): the group keys in ascending order (sort=True)
RECURSIVE SortedKeys(_)
SortedKeys(S) ==
    IF S = {} THEN <<>>
    ELSE LET m == CHOOSE k \in S : \A j \in S : k <= j
         IN <<m>> \o SortedKeys(S \ {m})

\* mutant of GroupKeys: the keys in order of first occurrence (sort=False)
RECURSIVE FirstSeenKeys(_, _)
FirstSeenKeys(df, seen) ==
    IF df = <<>> THEN <<>>
    ELSE LET k == Head(df).JournalEntryId IN
         IF k \in seen THEN FirstSeenKeys(Tail(df), seen)
         ELSE <<k>> \o FirstSeenKeys(Tail(df), seen \cup {k})

GroupKeysFirstSeen(df) == FirstSeenKeys(df, {})

GroupKeys(df) == SortedKeys({df[i].JournalEntryId : i \in DOMAIN df})

\* the rows of one group, in the order of the frame
RowsOfGroup(df, key) == SelectSeq(df, LAMBDA r : r.JournalEntryId = key)

\* mutant of ApplyBuildLines: a group that fails is skipped and the rest returned
RECURSIVE ApplyBuildLinesSkipsFailed(_, _, _, _, _)
ApplyBuildLinesSkipsFailed(df, keys, accounts, categories, journal_entries) ==
    IF keys = <<>> THEN [ok |-> TRUE, entries |-> journal_entries]
    ELSE LET r == build_lines(RowsOfGroup(df, Head(keys)), accounts, categories) IN
         ApplyBuildLinesSkipsFailed(df, Tail(keys), accounts, categories,
             IF r.ok THEN Append(journal_entries, r.entry) ELSE journal_entries)

\* .apply(build_lines): the groups are built in key order; the first exception
\* leaves load_journal_entries and journal_entries is lost with it
RECURSIVE ApplyBuildLines(_, _, _, _, _)
ApplyBuildLines(df, keys, accounts, categories, journal_entries) ==
    IF keys = <<>> THEN [ok |-> TRUE, entries |-> journal_entries]
    ELSE LET r == build_lines(RowsOfGroup(df, Head(keys)), accounts, categories) IN
         IF ~r.ok THEN [ok |-> FALSE, error |-> r.error, entries |-> <<>>]
         ELSE ApplyBuildLines(df, Tail(keys), accounts, categories,
                              Append(journal_entries, r.entry))

load_journal_entries(raw, accounts, categories) ==
    LET df == ReadCsv(raw)
    IN ApplyBuildLines(df, GroupKeys(df), accounts, categories, <<>>)

-----------------------------------------------------------------------------
(* Inputs the model draws from *)

Credit == <<"C", "r", "e", "d", "i", "t">>
CREDIT == <<"C", "R", "E", "D", "I", "T">>
Debit == <<"D", "e", "b", "i", "t">>
DEBIT == <<"D", "E", "B", "I", "T">>

PostingTypes == {credit, Credit, CREDIT, debit, Debit, DEBIT}
Amounts == {-2, 3}

BaseRow ==
    [JournalEntryId |-> 1, TransactionDate |-> "2024-01-05", PostingType |-> Debit,
     Amount |-> 3, AccountNumber |-> "100", AccountName |-> "Cash",
     Class |-> "Sales", Description |-> "x",
     Department |-> "", Location |-> "", CustomerId |-> "", CustomerName |-> ""]

\* rows that differ in posting type and amount
AmountRows ==
    {[BaseRow EXCEPT !.PostingType = p, !.Amount = a] : p \in PostingTypes, a \in Amounts}

\* (account number, account name) cells: both known, number unknown and name
\* known, both unknown, both empty
AccountCells == {<<"100", "Cash">>, <<"999", "Rev">>, <<"999", "Ghost">>, <<"", "">>}

\* rows that differ in entry identifier and account reference
AccountRows ==
    {[BaseRow EXCEPT !.JournalEntryId = id, !.AccountNumber = c[1], !.AccountName = c[2]] :
        id \in {1, 2}, c \in AccountCells}

\* rows that differ in date format and class
OtherRows ==
    {[BaseRow EXCEPT !.TransactionDate = "01/05/2024", !.Class = ""],
     [BaseRow EXCEPT !.JournalEntryId = 2, !.TransactionDate = "2024-02-01 10:30",
                     !.Class = "Nope", !.PostingType = credit]}

SeqsUpTo(S, n) == UNION {[1..k -> S] : k \in 1..n}

\* the files of the conversion runs: at least one row (pandas' apply over an
\* empty frame is left out)
RowSets ==
    SeqsUpTo(AmountRows, MaxRows) \cup SeqsUpTo(AccountRows \cup OtherRows, MaxRows)

\* (account number, account name) cells whose number and name point to
\* different accounts, or of which only one is given
LookupCells == {<<"100", "Rev">>, <<"100", "Ghost">>, <<"", "Cash">>, <<"200", "Rev">>}

LookupRows ==
    {[BaseRow EXCEPT !.JournalEntryId = id, !.AccountNumber = c[1], !.AccountName = c[2]] :
        id \in {1, 2}, c \in LookupCells}

\* client.filter("Accounts"): lists in which the Name of one account is the
\* Code of another, in both orders
CollidingAccLists ==
    { << [Name |-> "Cash", Code |-> "100", Type |-> "BANK", AccountID |-> "a1"],
         [Name |-> "Rev", Code |-> "200", Type |-> "REVENUE", AccountID |-> "a2"],
         [Name |-> "200", Code |-> "300", Type |-> "EXPENSE", AccountID |-> "a3"] >>,
      << [Name |-> "200", Code |-> "300", Type |-> "EXPENSE", AccountID |-> "a3"],
         [Name |-> "Rev", Code |-> "200", Type |-> "REVENUE", AccountID |-> "a2"],
         [Name |-> "Cash", Code |-> "100", Type |-> "BANK", AccountID |-> "a1"] >> }

\* config without any of the optional keys, and with all of them
NoDimensions ==
    [department |-> None, location |-> None, customer_id |-> None,
     customer_name |-> None]
AllDimensions ==
    [department |-> "Department", location |-> "Location",
     customer_id |-> "Customer Id", customer_name |-> "Customer Name"]

Configs ==
    {NoDimensions, AllDimensions,
     [NoDimensions EXCEPT !.department = "Department",
                          !.customer_name = "Customer Name"],
     [NoDimensions EXCEPT !.location = "Location", !.customer_id = "Customer Id"]}

\* the columns of the files with tracking dimensions: all the optional
\* columns, none of them, two of them
TrackingColumnSets ==
    {PlainCols \cup OptionalCols, PlainCols,
     PlainCols \cup {"Department", "Customer Name"}}

\* the columns of the files that lack one required column
MissingColumnSets == {PlainCols \ {col} : col \in REQUIRED_COLS}

\* rows whose dimension values resolve in the category index or do not
TrackingRows ==
    {[BaseRow EXCEPT !.Class = "Sales", !.Department = "Ops", !.Location = "East",
                     !.CustomerId = "C1", !.CustomerName = "Acme"],
     [BaseRow EXCEPT !.Class = "Nope", !.Department = "Ops", !.Location = "Nowhere",
                     !.CustomerId = "C1", !.CustomerName = ""],
     [BaseRow EXCEPT !.JournalEntryId = 2, !.Class = "", !.Department = "Nope",
                     !.Location = "East", !.CustomerId = "X9",
                     !.CustomerName = "Acme"],
     [BaseRow EXCEPT !.JournalEntryId = 2, !.Class = "Nope", !.Department = "Nope",
                     !.Location = "Nowhere", !.CustomerId = "X9",
                     !.CustomerName = "Nobody"]}

GhostRow == [BaseRow EXCEPT !.AccountNumber = "999", !.AccountName = "Ghost"]

\* the inputs of the conversion runs: the file (its columns and rows), the
\* fetched account list and the config
LoadInputs ==
    \/ /\ rows \in RowSets
       /\ acc_list \in AccLists
       /\ config = NoDimensions
       /\ columns = PlainCols
    \/ /\ rows \in SeqsUpTo(LookupRows, MaxRows)
       /\ acc_list \in {FetchedAccounts} \cup CollidingAccLists
       /\ config = NoDimensions
       /\ columns = PlainCols
    \/ /\ rows \in SeqsUpTo(TrackingRows, MaxRows)
       /\ acc_list = FetchedAccounts
       /\ config \in Configs
       /\ columns \in TrackingColumnSets
    \/ /\ rows \in {<<BaseRow>>, <<BaseRow, GhostRow>>}
       /\ acc_list = FetchedAccounts
       /\ config \in {NoDimensions, AllDimensions}
       /\ columns \in MissingColumnSets

-----------------------------------------------------------------------------
(* upload_journals: the reference indexes and the conversion *)

\* upload_journals up to the return of load_journal_entries
Conversion == load_journal_entries(rows, AccountIndex(acc_list), CategoryIndex(cat_list))

\* load_journal_entries returns: post_journal_entries starts
LoadReturns ==
    /\ pc = "upload_journals"
    /\ HasRequiredCols(columns)
    /\ Conversion.ok
    /\ journals' = Conversion.entries
    /\ je_i' = 1
    /\ posted_journals' = <<>>
    /\ pc' = "post_journal_entries"
    /\ UNCHANGED <<files, config, columns, transactions, rows, acc_list, error, tx_i, pushed_ids,
                   log_file, void_i, calls>>

\* load_journal_entries raises: the exception leaves upload_journals and upload
LoadRaises ==
    /\ pc = "upload_journals"
    /\ HasRequiredCols(columns)
    /\ ~Conversion.ok
    /\ error' = Conversion.error
    /\ pc' = "raised"
    /\ UNCHANGED <<files, config, columns, transactions, rows, acc_list, journals, tx_i, pushed_ids,
                   log_file, je_i, posted_journals, void_i, calls>>

\* lines 62-65: a required column is missing; sys.exit(1) raises SystemExit,
\* which nothing catches, before any row is converted
LoadExits ==
    /\ pc = "upload_journals"
    /\ ~HasRequiredCols(columns)
    /\ error' = "SystemExit"
    /\ pc' = "raised"
    /\ UNCHANGED <<files, config, columns, transactions, rows, acc_list, journals,
                   tx_i, pushed_ids, log_file, je_i, posted_journals, void_i, calls>>

\* load_journal_entries alone, over every row set and account list
InitLoad ==
    /\ pc = "upload_journals"
    /\ files = [tx |-> FALSE, je |-> TRUE]
    /\ transactions = <<>>
    /\ LoadInputs
    /\ journals = <<>>
    /\ error = "none"
    /\ tx_i = 0
    /\ pushed_ids = <<>>
    /\ log_file = NoLog
    /\ je_i = 0
    /\ posted_journals = <<>>
    /\ void_i = 0
    /\ calls = <<>>

NextLoad == LoadReturns \/ LoadRaises \/ LoadExits

SpecLoad == InitLoad /\ [][NextLoad]_vars

-----------------------------------------------------------------------------
(* The remote service, as the code sees it *)

\* a Python dict with d[k] = v assigned
DictSet(d, k, v) == [x \in DOMAIN d \cup {k} |-> IF x = k THEN v ELSE d[x]]

\* what client.push("Manual_Journals", journal) followed by res.json() can give
\* the submission loop: an exception; the body of an accepted journal, with its
\* ManualJournals; a validation fault, {Type: "ValidationException", Elements},
\* which carries no ManualJournals; any other body without ManualJournals
JournalOutcomes == {"raise", "accepted", "validation", "no_id"}

\* line 194
HasValidationShape(outcome) == outcome = "validation"
\* whether res['ManualJournals'][0]['ManualJournalID'] can be read, line 198
HasManualJournals(outcome) == outcome = "accepted"

\* what a compensating push can give: the response is not read
CompensationOutcomes == {"ok", "rejected", "raise"}

\* res.status_code of a Bank_Transactions submission
StatusCodes == {200, 300, 400}

\* the status code above which upload_transactions takes the response for a failure
FailureStatus == 300

\* a history record of one client.push call; status_code is 0 where the code
\* reads none
Call(entity, op, ref, data, outcome, status_code) ==
    [entity |-> entity, op |-> op, ref |-> ref, data |-> data, outcome |-> outcome,
     status_code |-> status_code]

-----------------------------------------------------------------------------
(* post_journal_entries *)

\* the try block of one iteration, lines 190-198: TRUE when it reaches the
\* append, FALSE when an exception takes it to the handler
SubmissionSucceeds(outcome) == outcome # "raise" /\ HasManualJournals(outcome)

\* res['ManualJournals'][0]['ManualJournalID'] for the k-th journal of the batch
ManualJournalID(k) == k

\* one iteration whose try block completes: the identifier is appended
PostJournal ==
    /\ pc = "post_journal_entries"
    /\ je_i <= Len(journals)
    /\ \E outcome \in JournalOutcomes :
          /\ SubmissionSucceeds(outcome)
          /\ calls' = Append(calls, Call("Manual_Journals", "submit", je_i,
                                         journals[je_i], outcome, 0))
    /\ posted_journals' = Append(posted_journals, ManualJournalID(je_i))
    /\ je_i' = je_i + 1
    /\ UNCHANGED <<pc, files, config, columns, transactions, rows, acc_list, journals, error, tx_i,
                   pushed_ids, log_file, void_i>>

\* one iteration whose try block raises: the handler starts the void loop
PostJournalFails ==
    /\ pc = "post_journal_entries"
    /\ je_i <= Len(journals)
    /\ \E outcome \in JournalOutcomes :
          /\ ~SubmissionSucceeds(outcome)
          /\ calls' = Append(calls, Call("Manual_Journals", "submit", je_i,
                                         journals[je_i], outcome, 0))
    /\ void_i' = 1
    /\ pc' = "void"
    /\ UNCHANGED <<files, config, columns, transactions, rows, acc_list, journals, error, tx_i,
                   pushed_ids, log_file, je_i, posted_journals>>

\* the for loop ends: post_journal_entries, upload_journals and upload return
PostReturns ==
    /\ pc = "post_journal_entries"
    /\ je_i > Len(journals)
    /\ pc' = "done"
    /\ UNCHANGED <<files, config, columns, transactions, rows, acc_list, journals, error, tx_i,
                   pushed_ids, log_file, je_i, posted_journals, void_i, calls>>

\* the void loop, lines 213-219: a push that returns, whatever the response
VoidJournal ==
    /\ pc = "void"
    /\ void_i <= Len(posted_journals)
    /\ \E outcome \in CompensationOutcomes \ {"raise"} :
          calls' = Append(calls, Call("Manual_Journals", "void", posted_journals[void_i],
                                      [ManualJournalID |-> posted_journals[void_i],
                                       Status |-> "VOIDED"], outcome, 0))
    /\ void_i' = void_i + 1
    /\ UNCHANGED <<pc, files, config, columns, transactions, rows, acc_list, journals, error, tx_i,
                   pushed_ids, log_file, je_i, posted_journals>>

\* the void loop: a push that raises.  Nothing catches it inside the handler,
\* so it leaves post_journal_entries in place of the posting error
VoidJournalRaises ==
    /\ pc = "void"
    /\ void_i <= Len(posted_journals)
    /\ calls' = Append(calls, Call("Manual_Journals", "void", posted_journals[void_i],
                                   [ManualJournalID |-> posted_journals[void_i],
                                    Status |-> "VOIDED"], "raise", 0))
    /\ error' = "PushError"
    /\ pc' = "raised"
    /\ UNCHANGED <<files, config, columns, transactions, rows, acc_list, journals, tx_i,
                   pushed_ids, log_file, je_i, posted_journals, void_i>>

\* mutant of RaisePostingError: upload catches the error and starts over with
\* the record types
RaisePostingErrorCaught ==
    /\ pc = "void"
    /\ void_i > Len(posted_journals)
    /\ error' = "PostingError"
    /\ pc' = "upload"
    /\ UNCHANGED <<files, config, columns, transactions, rows, acc_list, journals, tx_i,
                   pushed_ids, log_file, je_i, posted_journals, void_i, calls>>

\* line 221: raise Exception("Posting Xero JournalEntries failed! ...")
RaisePostingError ==
    /\ pc = "void"
    /\ void_i > Len(posted_journals)
    /\ error' = "PostingError"
    /\ pc' = "raised"
    /\ UNCHANGED <<files, config, columns, transactions, rows, acc_list, journals, tx_i,
                   pushed_ids, log_file, je_i, posted_journals, void_i, calls>>

-----------------------------------------------------------------------------
(* upload_transactions *)

\* the transactions of Transactions.json the model draws from: one whose
\* references all match a fetched record, one whose references match none
TxDomain ==
    {[Bank |-> "Cash", Contact |-> "Acme", LineItems |-> <<[AccountName |-> "Rev"]>>],
     [Bank |-> "Petty", Contact |-> "Nobody", LineItems |-> <<[AccountName |-> "Misc"]>>]}

TxLists == {<<>>} \cup SeqsUpTo(TxDomain, MaxTx)

\* mutant of ResolveBank: a bank that matches nothing is set to a null reference
ResolveBankSetsNull(transaction, accs) ==
    LET match == SelectSeq(accs, LAMBDA acc : acc.Name = transaction.Bank /\ acc.Type = "BANK")
        bank == [i \in DOMAIN match |-> match[i].AccountID]
    IN DictSet(transaction, "BankAccount",
               [AccountID |-> IF bank = <<>> THEN None ELSE bank[1]])

\* lines 278-282
ResolveBank(transaction, accs) ==
    LET match == SelectSeq(accs, LAMBDA acc : acc.Name = transaction.Bank /\ acc.Type = "BANK")
        bank == [i \in DOMAIN match |-> match[i].AccountID]
    IN IF bank = <<>> THEN transaction
       ELSE DictSet(transaction, "BankAccount", [AccountID |-> bank[1]])

\* lines 284-288, for one line
ResolveLine(line, accs) ==
    LET match == SelectSeq(accs, LAMBDA acc : acc.Name = line.AccountName)
        code == [i \in DOMAIN match |-> match[i].Code]
    IN IF code = <<>> THEN line ELSE DictSet(line, "AccountCode", code[1])

\* lines 283-288
ResolveLines(transaction, accs) ==
    DictSet(transaction, "LineItems",
            [i \in DOMAIN transaction.LineItems |->
                ResolveLine(transaction.LineItems[i], accs)])

\* lines 289-293: the Contact name is replaced by a reference on a match
ResolveContact(transaction, contacts) ==
    LET match == SelectSeq(contacts, LAMBDA c : c.Name = transaction.Contact)
        contact == [i \in DOMAIN match |-> match[i].ContactID]
    IN IF contact = <<>> THEN transaction
       ELSE DictSet(transaction, "Contact", [ContactID |-> contact[1]])

\* the transaction as it is pushed, lines 278-293
ResolveTransaction(transaction, accs, contacts) ==
    ResolveContact(ResolveLines(ResolveBank(transaction, accs), accs), contacts)

\* line 295
IsFailure(status_code) == status_code > FailureStatus

\* the BankTransactionID the service gives the k-th transaction of the file
BankTransactionID(k) == k

\* upload() finds Transactions.json: upload_transactions starts
StartTransactions ==
    /\ pc = "upload"
    /\ files.tx
    /\ tx_i' = 1
    /\ pushed_ids' = <<>>
    /\ pc' = "upload_transactions"
    /\ UNCHANGED <<files, config, columns, transactions, rows, acc_list, journals, error, log_file,
                   je_i, posted_journals, void_i, calls>>

\* upload() finds no Transactions.json
SkipTransactions ==
    /\ pc = "upload"
    /\ ~files.tx
    /\ pc' = "transactions_done"
    /\ UNCHANGED <<files, config, columns, transactions, rows, acc_list, journals, error, tx_i,
                   pushed_ids, log_file, je_i, posted_journals, void_i, calls>>

\* one iteration: the push returns a response the code takes for a success and
\* whose BankTransactions can be read
PushTransaction ==
    /\ pc = "upload_transactions"
    /\ tx_i <= Len(transactions)
    /\ \E status_code \in StatusCodes :
          /\ ~IsFailure(status_code)
          /\ calls' = Append(calls, Call("Bank_Transactions", "submit", tx_i,
                   ResolveTransaction(transactions[tx_i], acc_list, contact_list),
                   "accepted", status_code))
    /\ pushed_ids' = Append(pushed_ids, BankTransactionID(tx_i))
    /\ tx_i' = tx_i + 1
    /\ UNCHANGED <<pc, files, config, columns, transactions, rows, acc_list, journals, error,
                   log_file, je_i, posted_journals, void_i>>

\* one iteration: the push raises, or res['BankTransactions'] cannot be read
\* from a response taken for a success; the exception leaves upload
PushTransactionRaises ==
    /\ pc = "upload_transactions"
    /\ tx_i <= Len(transactions)
    /\ \/ calls' = Append(calls, Call("Bank_Transactions", "submit", tx_i,
                   ResolveTransaction(transactions[tx_i], acc_list, contact_list),
                   "raise", 0))
       \/ \E status_code \in StatusCodes :
             /\ ~IsFailure(status_code)
             /\ calls' = Append(calls, Call("Bank_Transactions", "submit", tx_i,
                      ResolveTransaction(transactions[tx_i], acc_list, contact_list),
                      "unreadable", status_code))
    /\ error' = "PushError"
    /\ pc' = "raised"
    /\ UNCHANGED <<files, config, columns, transactions, rows, acc_list, journals, tx_i, pushed_ids,
                   log_file, je_i, posted_journals, void_i>>

\* mutant of PushTransactionRejected: the loop goes on after the failure
PushTransactionRejectedGoesOn ==
    /\ pc = "upload_transactions"
    /\ tx_i <= Len(transactions)
    /\ \E status_code \in StatusCodes :
          /\ IsFailure(status_code)
          /\ calls' = Append(calls, Call("Bank_Transactions", "submit", tx_i,
                   ResolveTransaction(transactions[tx_i], acc_list, contact_list),
                   "rejected", status_code))
          /\ log_file' = [type |-> "response", status_code |-> status_code, of |-> tx_i]
    /\ tx_i' = tx_i + 1
    /\ UNCHANGED <<pc, files, config, columns, transactions, rows, acc_list, journals, error,
                   pushed_ids, je_i, posted_journals, void_i>>

\* one iteration: the response is taken for a failure; its body is written to
\* the log file and the deletion loop starts
PushTransactionRejected ==
    /\ pc = "upload_transactions"
    /\ tx_i <= Len(transactions)
    /\ \E status_code \in StatusCodes :
          /\ IsFailure(status_code)
          /\ calls' = Append(calls, Call("Bank_Transactions", "submit", tx_i,
                   ResolveTransaction(transactions[tx_i], acc_list, contact_list),
                   "rejected", status_code))
          /\ log_file' = [type |-> "response", status_code |-> status_code, of |-> tx_i]
    /\ void_i' = 1
    /\ pc' = "delete"
    /\ UNCHANGED <<files, config, columns, transactions, rows, acc_list, journals, error, tx_i,
                   pushed_ids, je_i, posted_journals>>

\* the deletion loop, lines 300-301: a push that returns
DeleteTransaction ==
    /\ pc = "delete"
    /\ void_i <= Len(pushed_ids)
    /\ \E outcome \in CompensationOutcomes \ {"raise"} :
          calls' = Append(calls, Call("Bank_Transactions", "delete", pushed_ids[void_i],
                                      [BankTransactionID |-> pushed_ids[void_i],
                                       Status |-> "DELETED"], outcome, 0))
    /\ void_i' = void_i + 1
    /\ UNCHANGED <<pc, files, config, columns, transactions, rows, acc_list, journals, error, tx_i,
                   pushed_ids, log_file, je_i, posted_journals>>

\* the deletion loop: a push that raises; the exception leaves upload
DeleteTransactionRaises ==
    /\ pc = "delete"
    /\ void_i <= Len(pushed_ids)
    /\ calls' = Append(calls, Call("Bank_Transactions", "delete", pushed_ids[void_i],
                                   [BankTransactionID |-> pushed_ids[void_i],
                                    Status |-> "DELETED"], "raise", 0))
    /\ error' = "PushError"
    /\ pc' = "raised"
    /\ UNCHANGED <<files, config, columns, transactions, rows, acc_list, journals, tx_i, pushed_ids,
                   log_file, je_i, posted_journals, void_i>>

\* line 302: break after the deletion loop; upload_transactions returns
BreakAfterDelete ==
    /\ pc = "delete"
    /\ void_i > Len(pushed_ids)
    /\ pc' = "transactions_done"
    /\ UNCHANGED <<files, config, columns, transactions, rows, acc_list, journals, error, tx_i,
                   pushed_ids, log_file, je_i, posted_journals, void_i, calls>>

\* the for loop ends: upload_transactions returns
TransactionsReturn ==
    /\ pc = "upload_transactions"
    /\ tx_i > Len(transactions)
    /\ pc' = "transactions_done"
    /\ UNCHANGED <<files, config, columns, transactions, rows, acc_list, journals, error, tx_i,
                   pushed_ids, log_file, je_i, posted_journals, void_i, calls>>

-----------------------------------------------------------------------------
(* upload *)

\* upload() finds JournalEntries.csv: upload_journals starts
StartJournals ==
    /\ pc = "transactions_done"
    /\ files.je
    /\ pc' = "upload_journals"
    /\ UNCHANGED <<files, config, columns, transactions, rows, acc_list, journals, error, tx_i,
                   pushed_ids, log_file, je_i, posted_journals, void_i, calls>>

\* upload() finds no JournalEntries.csv and returns
SkipJournals ==
    /\ pc = "transactions_done"
    /\ ~files.je
    /\ pc' = "done"
    /\ UNCHANGED <<files, config, columns, transactions, rows, acc_list, journals, error, tx_i,
                   pushed_ids, log_file, je_i, posted_journals, void_i, calls>>

\* XeroClient(config) or refresh_credentials raises: the error is written to the
\* log file and "Authentication Error" is raised
AuthenticationFails ==
    /\ pc = "authenticate"
    /\ log_file' = [type |-> "AuthenticationError", status_code |-> 0, of |-> 0]
    /\ error' = "AuthenticationError"
    /\ pc' = "raised"
    /\ UNCHANGED <<files, config, columns, transactions, rows, acc_list, journals, tx_i, pushed_ids,
                   je_i, posted_journals, void_i, calls>>

Authenticates ==
    /\ pc = "authenticate"
    /\ pc' = "upload"
    /\ UNCHANGED <<files, config, columns, transactions, rows, acc_list, journals, error, tx_i,
                   pushed_ids, log_file, je_i, posted_journals, void_i, calls>>

\* the rows of the upload runs: two entry identifiers with a known account,
\* and a row of the second entry with an unknown one
RunRows ==
    {[BaseRow EXCEPT !.JournalEntryId = id] : id \in {1, 2}}
    \cup {[GhostRow EXCEPT !.JournalEntryId = 2]}

RunRowSets == SeqsUpTo(RunRows, MaxRows)

\* JournalEntries.csv and the config of the upload runs
RunInputs ==
    \/ /\ rows \in RunRowSets
       /\ config = NoDimensions
       /\ columns = PlainCols
    \/ /\ rows \in [1..1 -> TrackingRows]
       /\ config = AllDimensions
       /\ columns = PlainCols \cup OptionalCols
    \/ /\ rows = <<BaseRow>>
       /\ config = NoDimensions
       /\ columns \in MissingColumnSets

\* no JournalEntries.csv
NoFile ==
    /\ rows = <<>>
    /\ config = NoDimensions
    /\ columns = {}

\* the state upload() starts in: the files found and what they and the remote
\* reference lists hold
Init ==
    /\ pc = "authenticate"
    /\ files \in [tx : BOOLEAN, je : BOOLEAN]
    /\ transactions \in (IF files.tx THEN TxLists ELSE {<<>>})
    /\ IF files.je THEN RunInputs ELSE NoFile
    /\ acc_list = FetchedAccounts
    /\ journals = <<>>
    /\ error = "none"
    /\ tx_i = 0
    /\ pushed_ids = <<>>
    /\ log_file = NoLog
    /\ je_i = 0
    /\ posted_journals = <<>>
    /\ void_i = 0
    /\ calls = <<>>

Next ==
    \/ AuthenticationFails
    \/ Authenticates
    \/ StartTransactions
    \/ SkipTransactions
    \/ PushTransaction
    \/ PushTransactionRaises
    \/ PushTransactionRejected
    \/ DeleteTransaction
    \/ DeleteTransactionRaises
    \/ BreakAfterDelete
    \/ TransactionsReturn
    \/ StartJournals
    \/ SkipJournals
    \/ LoadReturns
    \/ LoadRaises
    \/ LoadExits
    \/ PostJournal
    \/ PostJournalFails
    \/ PostReturns
    \/ VoidJournal
    \/ VoidJournalRaises
    \/ RaisePostingError

Spec == Init /\ [][Next]_vars

-----------------------------------------------------------------------------
(* post_journal_entries alone, over batches of 0..MaxEntries built entries *)

\* a file of n rows, one entry each, every account known
BatchRows(n) == [i \in 1..n |-> [BaseRow EXCEPT !.JournalEntryId = i]]

InitPost ==
    /\ pc = "post_journal_entries"
    /\ files = [tx |-> FALSE, je |-> TRUE]
    /\ transactions = <<>>
    /\ rows \in {BatchRows(n) : n \in 0..MaxEntries}
    /\ config = NoDimensions
    /\ columns = PlainCols
    /\ acc_list \in AccLists
    /\ journals = Conversion.entries
    /\ error = "none"
    /\ tx_i = 0
    /\ pushed_ids = <<>>
    /\ log_file = NoLog
    /\ je_i = 1
    /\ posted_journals = <<>>
    /\ void_i = 0
    /\ calls = <<>>

NextPost ==
    \/ PostJournal
    \/ PostJournalFails
    \/ PostReturns
    \/ VoidJournal
    \/ VoidJournalRaises
    \/ RaisePostingError

SpecPost == InitPost /\ [][NextPost]_vars

-----------------------------------------------------------------------------
(* History read off the calls made *)

CallsOf(entity, op) == SelectSeq(calls, LAMBDA c : c.entity = entity /\ c.op = op)

Refs(cs) == [i \in DOMAIN cs |-> cs[i].ref]

\* the identifiers void calls were issued for, in call order
VoidedIds == Refs(CallsOf("Manual_Journals", "void"))

\* the identifiers returned by the journal submissions that were taken for posted
PostedIds ==
    Refs(SelectSeq(CallsOf("Manual_Journals", "submit"),
                   LAMBDA c : c.outcome = "accepted"))

Finished == pc \in {"done", "raised"}

-----------------------------------------------------------------------------
(* Claims about post_journal_entries, checked under SpecPost *)

\* C1: when the submission of entry k is the first to fail, then at the end of
\* the run void calls have been issued for exactly the k-1 identifiers returned
\* by the earlier submissions, in posting order, and entries k+1..n were never
\* submitted.  (je_i is k once a submission has failed.)
C1_RollbackExact ==
    pc = "raised" =>
        /\ VoidedIds = [i \in 1..(je_i - 1) |-> ManualJournalID(i)]
        /\ Len(CallsOf("Manual_Journals", "submit")) = je_i

\* C2: at the end of every run, either all n entries were accepted or every
\* entry accepted in the run has had a void call issued for it.
C2_NoPartialBatch ==
    Finished =>
        \/ Len(PostedIds) = Len(journals)
        \/ Range(PostedIds) \subseteq Range(VoidedIds)

\* C3: a void call that fails does not escalate: every posted identifier still
\* gets its void call and the error that reaches the caller is the posting error.
C3_VoidFailureContained ==
    (pc = "raised" /\ \E i \in DOMAIN calls :
                         calls[i].op = "void" /\ calls[i].outcome \in {"raise", "rejected"})
        => /\ error = "PostingError"
           /\ VoidedIds = posted_journals

\* C4: a response with the validation-fault shape, or one without the
\* ManualJournals field, makes the submission fail: its identifier is not added
\* to posted_journals, the compensation phase runs and the run ends with the
\* posting error.
C4_ValidationFaultFails ==
    \A i \in DOMAIN calls :
        (/\ calls[i].op = "submit"
         /\ calls[i].entity = "Manual_Journals"
         /\ calls[i].outcome # "raise"
         /\ (HasValidationShape(calls[i].outcome) \/ ~HasManualJournals(calls[i].outcome)))
        => /\ ManualJournalID(calls[i].ref) \notin Range(posted_journals)
           /\ pc \in {"void", "raised"}
           /\ pc = "raised" => error = "PostingError"

-----------------------------------------------------------------------------
(* Claims about load_journal_entries, checked under SpecLoad *)

\* load_journal_entries has returned its list / has raised
Returned == pc = "post_journal_entries"
Raised == pc = "raised"

\* the indexes of the rows of entry `id`, in file order, from row i on
RECURSIVE IndicesFrom(_, _)
IndicesFrom(i, id) ==
    IF i > Len(rows) THEN <<>>
    ELSE (IF rows[i].JournalEntryId = id THEN <<i>> ELSE <<>>) \o IndicesFrom(i + 1, id)

\* the row the k-th line of entry e was built from, if lines keep the file order
RowOfLine(e, k) == rows[IndicesFrom(1, e.Narration)[k]]

EntryIds == {rows[i].JournalEntryId : i \in DOMAIN rows}

\* the account index holds a Code for the row's account number or name
RowResolves(i) ==
    LET df == ReadCsv(rows)
    IN ResolveAccountCode(AccountIndex(acc_list), df[i].AccountNumber,
                          df[i].AccountName) # None

\* C5: load_journal_entries either returns every entry, each line with a
\* non-null AccountCode, or raises and returns nothing; a row that does not
\* resolve always makes it raise.
C5_AllLinesResolvedOrRaise ==
    /\ Returned =>
          /\ \A i \in DOMAIN journals : \A k \in DOMAIN journals[i].JournalLines :
                journals[i].JournalLines[k].AccountCode # None
          /\ {journals[i].Narration : i \in DOMAIN journals} = EntryIds
          /\ \A i \in DOMAIN rows : RowResolves(i)
    /\ Raised => journals = <<>>

\* C5 witness: the conversion raised on a file in which another row resolves
C5_Witness ==
    /\ Raised
    /\ error = "AccountNotFound"
    /\ \E i, j \in DOMAIN rows :
          /\ RowResolves(i) /\ ~RowResolves(j)
          /\ rows[i].JournalEntryId < rows[j].JournalEntryId

\* C7 as stated: the entries are in the order of the first occurrence of their
\* identifiers in the rows.
C7_FirstSeenOrder ==
    Returned =>
        \A i, j \in DOMAIN journals :
            i < j => IndicesFrom(1, journals[i].Narration)[1]
                       < IndicesFrom(1, journals[j].Narration)[1]

\* C7 amended: there is one entry per identifier, the entries are in ascending
\* order of their identifiers (groupby sorts the keys), and the lines of each
\* entry are the lines of its rows in file order.
C7_SortedByIdentifier ==
    Returned =>
        /\ {journals[i].Narration : i \in DOMAIN journals} = EntryIds
        /\ \A i, j \in DOMAIN journals :
              i < j => journals[i].Narration < journals[j].Narration
        /\ \A i \in DOMAIN journals :
              LET e == journals[i]
                  idx == IndicesFrom(1, e.Narration)
                  df == ReadCsv(rows)
              IN /\ Len(e.JournalLines) = Len(idx)
                 /\ \A k \in DOMAIN idx :
                       e.JournalLines[k] =
                           BuildLine(df[idx[k]], AccountIndex(acc_list),
                                     CategoryIndex(cat_list)).line

\* C7 witness: rows of entries 2, 1, 2 with different lines for entry 2 were
\* converted
C7_Witness ==
    /\ Returned
    /\ Len(rows) = 3
    /\ rows[1].JournalEntryId = 2 /\ rows[2].JournalEntryId = 1
    /\ rows[3].JournalEntryId = 2
    /\ Len(journals) = 2
    /\ journals[2].JournalLines[1].AccountCode # journals[2].JournalLines[2].AccountCode

CreditSpellings == {credit, Credit, CREDIT}
DebitSpellings == {debit, Debit, DEBIT}

\* C8: the amount of a line is minus the absolute input amount for a credit
\* row and the absolute input amount for a debit row, in any letter case and
\* whatever the sign of the input amount.
C8_SignedAmount ==
    Returned =>
        \A i \in DOMAIN journals : \A k \in DOMAIN journals[i].JournalLines :
            LET r == RowOfLine(journals[i], k)
                magnitude == IF r.Amount < 0 THEN 0 - r.Amount ELSE r.Amount
                amt == journals[i].JournalLines[k].LineAmount
            IN /\ r.PostingType \in CreditSpellings => amt = 0 - magnitude
               /\ r.PostingType \in DebitSpellings => amt = magnitude

\* C8 witness: credit and debit rows in upper and mixed case, with negative and
\* positive amounts, were converted
C8_Witness ==
    /\ Returned
    /\ \E i, j, k \in DOMAIN rows :
          /\ rows[i].PostingType = CREDIT /\ rows[i].Amount = 3
          /\ rows[j].PostingType = Credit /\ rows[j].Amount = -2
          /\ rows[k].PostingType = DEBIT /\ rows[k].Amount = -2

-----------------------------------------------------------------------------
(* Claims about the upload run, checked under Spec *)

IsSubmission(c, entity) == c.entity = entity /\ c.op = "submit"

\* C6: a journal entry is submitted only when every row of the file resolves
\* to an account code, and every line of a submitted entry carries a code.
C6_SubmitOnlyConverted ==
    \A i \in DOMAIN calls :
        IsSubmission(calls[i], "Manual_Journals") =>
            /\ \A r \in DOMAIN rows : RowResolves(r)
            /\ \A k \in DOMAIN calls[i].data.JournalLines :
                  calls[i].data.JournalLines[k].AccountCode # None

\* C6 witness: the run ended on a conversion error, with an entry that
\* resolves in the file, and no journal was submitted
C6_Witness ==
    /\ Raised
    /\ error = "AccountNotFound"
    /\ \E i, j \in DOMAIN rows :
          /\ RowResolves(i) /\ ~RowResolves(j)
          /\ rows[i].JournalEntryId # rows[j].JournalEntryId
    /\ CallsOf("Manual_Journals", "submit") = <<>>

\* the transaction phase of the run is over
TransactionsOver == pc \notin {"authenticate", "upload", "upload_transactions", "delete"}

\* C9: at the first response with a status code >= 300 the body is written to
\* the log file, a deletion call is issued for every identifier returned
\* before, and no later transaction is submitted.
C9_FailFastWithDeletion ==
    LET txc == CallsOf("Bank_Transactions", "submit")
        bad == {i \in DOMAIN txc : txc[i].outcome # "raise" /\ txc[i].status_code >= 300}
    IN (bad # {} /\ TransactionsOver) =>
          LET f == CHOOSE i \in bad : \A j \in bad : i <= j
          IN /\ log_file.type = "response"
             /\ log_file.of = txc[f].ref
             /\ Refs(CallsOf("Bank_Transactions", "delete"))
                   = [k \in 1..(f - 1) |-> BankTransactionID(k)]
             /\ Len(txc) = f

IsRejection(c) == IsSubmission(c, "Bank_Transactions") /\ c.outcome = "rejected"

\* C10 as stated: after a rejected transaction submission nothing more is
\* submitted in the run, neither a transaction nor a journal entry.
C10_NothingSubmittedAfterRejection ==
    \A i, j \in DOMAIN calls :
        (i < j /\ IsRejection(calls[i])) => calls[j].op # "submit"

\* C10 amended: after a rejected transaction submission (status code > 300) no
\* later transaction is submitted and the rejection raises nothing: a run that
\* ends raised right after it ended on a conversion error or on the exit of
\* upload_journals, which upload goes on to after the deletion loop.
C10_RejectionEndsTransactionsOnly ==
    \A i \in DOMAIN calls :
        IsRejection(calls[i]) =>
            /\ calls[i].status_code > FailureStatus
            /\ \A j \in DOMAIN calls :
                  j > i => ~IsSubmission(calls[j], "Bank_Transactions")
            /\ (i = Len(calls) /\ pc = "raised")
                  => error \in {"AccountNotFound", "AccountMissing", "SystemExit"}

\* C10 witness: a journal entry was accepted after a transaction was rejected
\* and the transaction posted before it was deleted
C10_Witness ==
    \E i, j, k \in DOMAIN calls :
        /\ i < j /\ j < k
        /\ IsRejection(calls[i])
        /\ calls[j].op = "delete"
        /\ IsSubmission(calls[k], "Manual_Journals")
        /\ calls[k].outcome = "accepted"

\* a journal submission that took the handler of post_journal_entries
IsPostingFailure(c) == IsSubmission(c, "Manual_Journals") /\ c.outcome # "accepted"

\* C11: after a journal submission has failed, no Bank_Transactions call is
\* made in the run, and a run that ended on the posting error made its last
\* call to Manual_Journals (the failed submission or a void).
C11_NoTransactionAfterPostingFailure ==
    /\ \A i, j \in DOMAIN calls :
          (i < j /\ IsPostingFailure(calls[i])) => calls[j].entity # "Bank_Transactions"
    /\ error = "PostingError" =>
          /\ pc = "raised"
          /\ calls[Len(calls)].entity = "Manual_Journals"
          /\ \E i \in DOMAIN calls : IsPostingFailure(calls[i])

\* C11 witness: a run that had transactions to submit and submitted one ended
\* on the posting error after voiding a posted journal
C11_Witness ==
    /\ pc = "raised"
    /\ error = "PostingError"
    /\ \E i, j \in DOMAIN calls :
          /\ i < j
          /\ IsSubmission(calls[i], "Bank_Transactions")
          /\ calls[j].op = "void"

-----------------------------------------------------------------------------
(* Claims about the account lookup, checked under SpecLoad *)

\* the file has every required column
ColumnsComplete == REQUIRED_COLS \subseteq columns

\* the Code the account index holds for row i of the file: the entry under
\* the row's account number when that key is in the index, otherwise the entry
\* under its account name, None when neither key is in the index
IndexedCode(i) ==
    LET accounts == AccountIndex(acc_list)
    IN IF rows[i].AccountNumber \in DOMAIN accounts
       THEN accounts[rows[i].AccountNumber].Code
       ELSE IF rows[i].AccountName \in DOMAIN accounts
       THEN accounts[rows[i].AccountName].Code
       ELSE None

\* C12: the account code of every line is the Code found under its row's
\* account number when the index has that key, otherwise the Code found under
\* the row's account name; the conversion of a file with its required columns
\* raises the account-resolution error exactly when some row has neither key
\* in the index, and then returns nothing.
C12_NumberThenName ==
    /\ Returned =>
          \A i \in DOMAIN journals : \A k \in DOMAIN journals[i].JournalLines :
              LET r == IndicesFrom(1, journals[i].Narration)[k]
              IN /\ IndexedCode(r) # None
                 /\ journals[i].JournalLines[k].AccountCode = IndexedCode(r)
    /\ (Raised /\ ColumnsComplete) =>
          /\ error = "AccountNotFound"
          /\ journals = <<>>
          /\ \E i \in DOMAIN rows : IndexedCode(i) = None

\* the value upload_journals stores for an account, lines 238-241
AccRef(account) == [Name |-> account.Name, Code |-> account.Code]

\* the index has been built and handed to load_journal_entries
Indexed == Returned \/ Raised

\* C13: every fetched account with a non-null Code is the value the index
\* holds under its Code and under its Name, and no value of the index has a
\* null Code.
C13_IndexedUnderBothKeys ==
    Indexed =>
        LET accounts == AccountIndex(acc_list)
        IN /\ \A i \in DOMAIN acc_list :
                 acc_list[i].Code # None =>
                     /\ acc_list[i].Code \in DOMAIN accounts
                     /\ acc_list[i].Name \in DOMAIN accounts
                     /\ accounts[acc_list[i].Code] = AccRef(acc_list[i])
                     /\ accounts[acc_list[i].Name] = AccRef(acc_list[i])
           /\ \A k \in DOMAIN accounts : accounts[k].Code # None

\* C19: the index holds under the Code of every indexed account a value with
\* that Code, and a line built from a row whose account number is the Code of
\* a fetched account has that number as its AccountCode.
C19_CodeLookupYieldsSameAccount ==
    Indexed =>
        LET accounts == AccountIndex(acc_list)
            codes == {acc_list[i].Code : i \in DOMAIN acc_list} \ {None}
        IN /\ \A c \in codes : accounts[c].Code = c
           /\ Returned =>
                 \A i \in DOMAIN journals : \A k \in DOMAIN journals[i].JournalLines :
                     LET r == RowOfLine(journals[i], k)
                     IN r.AccountNumber \in codes =>
                            journals[i].JournalLines[k].AccountCode = r.AccountNumber

\* row i of the file gives neither an account number nor an account name
BothEmpty(i) == rows[i].AccountNumber = "" /\ rows[i].AccountName = ""

\* C15: when a row gives neither account number nor account name (and every
\* other row resolves), load_journal_entries raises the missing-account
\* error, not the account-not-found error.
C15_MissingAccountReference ==
    (/\ Indexed
     /\ \E i \in DOMAIN rows : BothEmpty(i)
     /\ \A j \in DOMAIN rows : ~BothEmpty(j) => RowResolves(j))
        => Raised /\ error = "AccountMissing"

-----------------------------------------------------------------------------
(* Claims about the references of a transaction, checked under Spec *)

BankMatches(t) ==
    \E i \in DOMAIN acc_list : acc_list[i].Name = t.Bank /\ acc_list[i].Type = "BANK"
AccountNameMatches(l) == \E i \in DOMAIN acc_list : acc_list[i].Name = l.AccountName
ContactMatches(t) == \E i \in DOMAIN contact_list : contact_list[i].Name = t.Contact

\* the number of transactions the loop of upload_transactions has been through
TransactionsTaken ==
    IF pc \in {"authenticate", "upload"} THEN 0
    ELSE IF pc = "upload_transactions" THEN tx_i - 1
    ELSE IF tx_i = 0 THEN 0
    ELSE IF tx_i > Len(transactions) THEN Len(transactions)
    ELSE tx_i

\* C16: every transaction the loop has been through was submitted, in file
\* order, whether or not its references match; a submitted transaction has
\* no BankAccount when its bank matches no fetched bank account, its lines
\* have no AccountCode when their account name matches no fetched account,
\* and its Contact is still the name when that matches no fetched contact.
C16_UnresolvedStillSubmitted ==
    LET txc == CallsOf("Bank_Transactions", "submit")
    IN /\ Refs(txc) = [k \in 1..TransactionsTaken |-> k]
       /\ \A c \in DOMAIN txc :
             LET t == transactions[txc[c].ref]
                 sent == txc[c].data
             IN /\ ~BankMatches(t) => "BankAccount" \notin DOMAIN sent
                /\ BankMatches(t) => "BankAccount" \in DOMAIN sent
                /\ Len(sent.LineItems) = Len(t.LineItems)
                /\ \A l \in DOMAIN t.LineItems :
                      AccountNameMatches(t.LineItems[l])
                          <=> "AccountCode" \in DOMAIN sent.LineItems[l]
                /\ ~ContactMatches(t) => sent.Contact = t.Contact

\* C16 witness: a transaction none of whose references match was submitted
\* and accepted, and the transaction after it was submitted too
C16_Witness ==
    \E i, j \in DOMAIN calls :
        /\ i < j
        /\ IsSubmission(calls[i], "Bank_Transactions")
        /\ IsSubmission(calls[j], "Bank_Transactions")
        /\ calls[i].outcome = "accepted"
        /\ ~BankMatches(transactions[calls[i].ref])
        /\ ~ContactMatches(transactions[calls[i].ref])
        /\ ~AccountNameMatches(transactions[calls[i].ref].LineItems[1])

-----------------------------------------------------------------------------
(* The batch state machine of post_journal_entries, checked under SpecPost *)

\* the states of the batch, read off the position of the run
Posting == pc = "post_journal_entries"
AllPosted == pc = "done"
Compensating == pc = "void"
Failed == pc = "raised"

\* every entry is submitted at most once, in order, and only the last
\* submission made can be one that failed
SubmittedOnceInOrder ==
    LET sub == CallsOf("Manual_Journals", "submit")
    IN /\ Refs(sub) = [k \in 1..Len(sub) |-> k]
       /\ \A k \in 1..(Len(sub) - 1) : sub[k].outcome = "accepted"
       /\ (Compensating \/ Failed) <=> (sub # <<>> /\ sub[Len(sub)].outcome # "accepted")

\* a run all of whose submissions succeed issues no void call, raises nothing
\* and ends with the n identifiers in posting order
SuccessPath ==
    /\ Posting => VoidedIds = <<>> /\ posted_journals = PostedIds /\ error = "none"
    /\ AllPosted =>
          /\ VoidedIds = <<>>
          /\ error = "none"
          /\ Len(CallsOf("Manual_Journals", "submit")) = Len(journals)
          /\ posted_journals = [k \in 1..Len(journals) |-> ManualJournalID(k)]

\* C18: every run follows Pending -> Posting(i) -> AllPosted or Compensating
\* -> Voided+Failed: each entry is submitted at most once, a run whose
\* submissions all succeed issues no void call, raises nothing and ends with
\* its n identifiers in posting order, and a run that failed ends with every
\* posted journal voided and the posting error raised.
C18_BatchStateMachine ==
    /\ SubmittedOnceInOrder
    /\ SuccessPath
    /\ Failed => VoidedIds = posted_journals /\ error = "PostingError"

\* the part of C18 that every run satisfies
C18_NoRetryAndSuccessPath == SubmittedOnceInOrder /\ SuccessPath

-----------------------------------------------------------------------------
(* Claims about tracking and the required columns *)

\* the value row i of the file gives for an optional dimension; "" when the
\* config has no column for it or the file has no such column
DimensionValue(i, col) ==
    IF col # None /\ col \in columns THEN RowValue(rows[i], col) ELSE ""

\* the tracking references of row i that resolve in the category index, in
\* the order class, department, location, customer id, customer name
ResolvedTracking(i) ==
    LET categories == CategoryIndex(cat_list)
        values == << rows[i].Class,
                     DimensionValue(i, config.department),
                     DimensionValue(i, config.location),
                     DimensionValue(i, config.customer_id),
                     DimensionValue(i, config.customer_name) >>
        hits == SelectSeq(values, LAMBDA v : v \in DOMAIN categories)
    IN [k \in DOMAIN hits |-> categories[hits[k]]]

\* C14: the Tracking list of every line holds exactly the references of its
\* row that resolve, in the order class, department, location, customer id,
\* customer name; a value that does not resolve is left out and fails
\* nothing: a file with its required columns whose rows all resolve to an
\* account is converted.
C14_TrackingInOrder ==
    /\ Returned =>
          \A i \in DOMAIN journals : \A k \in DOMAIN journals[i].JournalLines :
              journals[i].JournalLines[k].Tracking
                  = ResolvedTracking(IndicesFrom(1, journals[i].Narration)[k])
    /\ (Raised /\ ColumnsComplete) => \E i \in DOMAIN rows : ~RowResolves(i)

\* C14 witness: with all four optional dimensions configured and present, a
\* file was converted in which one line has five references and another, whose
\* class does not resolve, has fewer
C14_Witness ==
    /\ Returned
    /\ config = AllDimensions
    /\ \E i, j \in DOMAIN journals :
          \E k \in DOMAIN journals[i].JournalLines, l \in DOMAIN journals[j].JournalLines :
              /\ Len(journals[i].JournalLines[k].Tracking) = 5
              /\ Len(journals[j].JournalLines[l].Tracking) \in 1..4
              /\ RowOfLine(journals[j], l).Class \notin DOMAIN CategoryIndex(cat_list)

\* C17: when JournalEntries.csv lacks a required column, load_journal_entries
\* fails before converting any row: no entry is built, it never returns, no
\* journal is submitted in the run, and the run ends on the exit it raises.
C17_MissingColumnAborts ==
    (files.je /\ ~ColumnsComplete) =>
        /\ journals = <<>>
        /\ pc \notin {"post_journal_entries", "void", "done"}
        /\ \A i \in DOMAIN calls : calls[i].entity # "Manual_Journals"
        /\ (Raised /\ error \notin {"AuthenticationError", "PushError"})
              => error = "SystemExit"

\* C17 witness: a run ended on the exit for a file whose only row would have
\* been converted had the column been there
C17_Witness ==
    /\ Raised
    /\ error = "SystemExit"
    /\ ~ColumnsComplete
    /\ rows # <<>>
    /\ \A i \in DOMAIN rows : RowResolves(i)

====
